---- MODULE Spec2Model ----
(***************************************************************************)
(* Kirana Konnect (src/app.py): the record store (Customer, Bill,          *)
(* BillItem, Payment, Product, Notification rows) and the request handlers *)
(* that read and write it.  Every handler runs to completion inside one    *)
(* request; the state recorded between two requests is the committed       *)
(* content of the store plus the outcome of the last request (last).       *)
(* Only the notification scan is also modelled access by access, for       *)
(* requests served side by side (scans).                                   *)
(*                                                                         *)
(* Python's None is the empty tuple and a present value v is <<v>>, so a   *)
(* missing JSON key, a null column and the number 0 stay distinct and      *)
(* Python truthiness (`not amount`) can be computed as the code does.      *)
(*                                                                         *)
(* The store enforces the constraints the models declare (foreign keys,    *)
(* the unique bill number) and is otherwise available: a commit fails only *)
(* on a constraint.                                                        *)
(***************************************************************************)
EXTENDS Integers, Sequences, FiniteSets, TLC

VARIABLES customers, bills, bill_items, payments, products, notifications,
          notif_seq, last, scans

vars == <<customers, bills, bill_items, payments, products, notifications,
          notif_seq, last, scans>>

ledger_vars == <<customers, bills, bill_items, payments>>
notif_vars == <<products, notifications, notif_seq, scans>>

---------------------------------------------------------------------------
(* Bounds of the model *)

MaxCustomers == 2
MaxBills == 2
MaxPayments == 1
MaxItems == 2
MaxSuffix == 2
MaxNotifSeq == 4
MaxScans == 2

---------------------------------------------------------------------------
(* Python values *)

None == <<>>
Some(v) == <<v>>
Val(x) == x[1]

\* bool(x) for x None or a number
Truthy(x) == x # None /\ Val(x) # 0

RECURSIVE SumSet(_, _)
\* sum of f[e] over the elements e of S
SumSet(S, f) ==
    IF S = {} THEN 0
    ELSE LET e == CHOOSE x \in S : TRUE IN f[e] + SumSet(S \ {e}, f)

\* SQL SUM(): NULL over no rows, else the sum of col over the row set S
sql_sum(S, col) ==
    IF S = {} THEN None ELSE Some(SumSet(S, [r \in S |-> r[col]]))

\* Python `x or 0` for x None or a number
or_zero(x) == IF Truthy(x) THEN Val(x) ELSE 0

Range(s) == {s[i] : i \in DOMAIN s}

---------------------------------------------------------------------------
(* Ledger engine *)

\* mutant: the payment_status filter is dropped from the bill sum
outstanding_balance_all_bills(customer_id) ==
    LET total_bills == or_zero(sql_sum(
            {b \in Range(bills) : b.customer_id = Some(customer_id)},
            "total_amount"))
        total_payments == or_zero(sql_sum(
            {p \in Range(payments) : p.customer_id = customer_id}, "amount"))
    IN total_bills - total_payments

\* Customer.outstanding_balance
outstanding_balance(customer_id) ==
    LET total_bills == or_zero(sql_sum(
            {b \in Range(bills) : b.customer_id = Some(customer_id)
                                  /\ b.payment_status # "paid"},
            "total_amount"))
        total_payments == or_zero(sql_sum(
            {p \in Range(payments) : p.customer_id = customer_id}, "amount"))
    IN total_bills - total_payments

\* api_customer_ledger: the customer's bills and payments, newest first
\* (created_at descending; rows are appended in creation order)
Reverse(s) == [i \in 1..Len(s) |-> s[Len(s) + 1 - i]]

ledger_bills(customer_id) ==
    Reverse(SelectSeq(bills, LAMBDA b : b.customer_id = Some(customer_id)))

ledger_payments(customer_id) ==
    Reverse(SelectSeq(payments, LAMBDA p : p.customer_id = customer_id))

---------------------------------------------------------------------------
(* Request inputs *)

CustomerIds == 1..MaxCustomers
BillAmounts == {10}
PaymentAmounts == {-4, 0, 4, 10}
BillModes == {"cash", "online", "split", "credit"}
\* no payment_mode key (the default cash), and a mode outside the data model
PaymentModeInputs == {None, Some("cheque")}

\* one line item of a create_bill request; name = None is a missing 'name' key
Item(ok) == [name |-> IF ok THEN Some("rice") ELSE None,
             quantity |-> 1, unit_price |-> 5, total_price |-> 5]

\* the lists of 1..MaxItems well-formed items
ItemLists == UNION {{[i \in 1..n |-> Item(TRUE)]} : n \in 1..MaxItems}

\* the requests the billing page sends
WellFormedBillRequests ==
    [customer_id : {None} \cup {Some(c) : c \in CustomerIds},
     subtotal : {Some(a) : a \in BillAmounts},
     total_amount : {Some(a) : a \in BillAmounts},
     payment_mode : {Some(m) : m \in BillModes},
     items : ItemLists]

\* one-item cash requests with one defect: a required key missing, a payment
\* mode outside the four, no line item, a line item without name
DefectiveBillRequests ==
    UNION {{[w EXCEPT !.subtotal = None],
            [w EXCEPT !.total_amount = None],
            [w EXCEPT !.payment_mode = None],
            [w EXCEPT !.payment_mode = Some("cheque")],
            [w EXCEPT !.items = <<>>],
            [w EXCEPT !.items = <<Item(FALSE)>>]} :
           w \in {r \in WellFormedBillRequests :
                     Len(r.items) = 1 /\ r.payment_mode = Some("cash")}}

BillRequests == WellFormedBillRequests \cup DefectiveBillRequests

PaymentRequests ==
    [customer_id : {None} \cup {Some(c) : c \in CustomerIds},
     amount : {None} \cup {Some(a) : a \in PaymentAmounts},
     payment_mode : PaymentModeInputs]

---------------------------------------------------------------------------
(* Billing transaction handler *)

\* the attributes of the mapped class Bill: its columns, its relationship
\* and the backref Customer.bills puts on it
BillAttrs == {"id", "bill_number", "customer_id", "customer_name", "subtotal",
              "tax_amount", "discount_amount", "total_amount", "payment_mode",
              "payment_status", "generated_by", "created_at", "items",
              "customer"}

\* the keyword arguments create_bill passes to Bill(...)
BillKwargs == {"bill_number", "customer_id", "customer_name", "subtotal",
               "tax_amount", "discount_amount", "total_amount", "payment_mode",
               "payment_status", "generated_by", "include_dates"}

\* the declarative constructor raises TypeError for a keyword that is no
\* attribute of the class
ctor_accepts(kwargs, attrs) == kwargs \subseteq attrs

\* a failed request: nothing of the session is committed (the handler has no
\* except clause; the session is discarded when the request ends)
bill_failure(exc) ==
    [bills |-> bills, bill_items |-> bill_items, payments |-> payments,
     status |-> 500, exc |-> exc, bill_id |-> None, bill_number |-> None]

\* the rows create_bill adds to the session after Bill(...) was built, and
\* the outcome of the commit
bill_transaction(data, suffix) ==
    LET bill_id == Len(bills) + 1
        bill == [id |-> bill_id,
                 bill_number |-> suffix,
                 customer_id |-> data.customer_id,
                 total_amount |-> Val(data.total_amount),
                 payment_mode |-> Val(data.payment_mode),
                 payment_status |->
                     IF Val(data.payment_mode) = "credit" THEN "pending"
                     ELSE "paid"]
        new_items == [i \in 1..Len(data.items) |->
                        [id |-> Len(bill_items) + i,
                         bill_id |-> bill_id,
                         item_name |-> Val(data.items[i].name),
                         quantity |-> data.items[i].quantity,
                         unit_price |-> data.items[i].unit_price,
                         total_price |-> data.items[i].total_price]]
        pays == Val(data.payment_mode) # "credit" /\ Truthy(data.customer_id)
        payment == [id |-> Len(payments) + 1,
                    customer_id |-> Val(data.customer_id),
                    bill_id |-> Some(bill_id),
                    amount |-> Val(data.total_amount),
                    payment_mode |-> Val(data.payment_mode)]
    IN  IF \E b \in Range(bills) : b.bill_number = suffix
            THEN bill_failure("IntegrityError")
        ELSE IF data.customer_id # None
                /\ Val(data.customer_id) \notin customers
            THEN bill_failure("IntegrityError")
        ELSE IF \E i \in DOMAIN data.items : data.items[i].name = None
            THEN bill_failure("KeyError")
        ELSE [bills |-> Append(bills, bill),
              bill_items |-> bill_items \o new_items,
              payments |-> IF pays THEN Append(payments, payment) ELSE payments,
              status |-> 200, exc |-> "", bill_id |-> Some(bill_id),
              bill_number |-> Some(suffix)]

\* create_bill
create_bill(data, suffix) ==
    IF data.subtotal = None \/ data.total_amount = None
       \/ data.payment_mode = None
    THEN bill_failure("KeyError")
    ELSE IF ~ctor_accepts(BillKwargs, BillAttrs)
    THEN bill_failure("TypeError")
    ELSE bill_transaction(data, suffix)

\* the attributes of a Bill that api_get_bill reads for its answer
BillReadAttrs == {"bill_number", "customer_name", "subtotal", "tax_amount",
                  "discount_amount", "total_amount", "payment_mode",
                  "payment_status", "generated_by", "created_at",
                  "include_dates"}

\* reading an attribute the class does not have raises AttributeError
attrs_readable(names, attrs) == names \subseteq attrs

\* api_get_bill: 404 for an unknown number; an exception while the answer is
\* built is caught and answered with 500
api_get_bill(bill_number) ==
    LET found == SelectSeq(bills, LAMBDA b : b.bill_number = bill_number)
    IN  IF found = <<>>
        THEN [status |-> 404, exc |-> "", detail |-> None]
        ELSE LET bill == found[1]
                 items == SelectSeq(bill_items,
                                    LAMBDA i : i.bill_id = bill.id)
             IN  IF ~attrs_readable(BillReadAttrs, BillAttrs)
                 THEN [status |-> 500, exc |-> "AttributeError",
                       detail |-> None]
                 ELSE [status |-> 200, exc |-> "",
                       detail |-> Some([bill_number |-> bill.bill_number,
                                        total_amount |-> bill.total_amount,
                                        payment_mode |-> bill.payment_mode,
                                        payment_status |-> bill.payment_status,
                                        items |-> items])]

---------------------------------------------------------------------------
(* Payments *)

payment_result(ps, status, exc, id) ==
    [payments |-> ps, status |-> status, exc |-> exc, payment_id |-> id]

\* mutant: the payment is recorded against the customer's first bill
create_payment_linked(data) ==
    LET payment == [id |-> Len(payments) + 1,
                    customer_id |-> Val(data.customer_id),
                    bill_id |-> Some(1),
                    amount |-> Val(data.amount),
                    payment_mode |-> IF data.payment_mode = None THEN "cash"
                                     ELSE Val(data.payment_mode)]
    IN  IF ~Truthy(data.customer_id) \/ ~Truthy(data.amount)
        THEN payment_result(payments, 400, "", None)
        ELSE IF Val(data.customer_id) \notin customers
        THEN payment_result(payments, 500, "IntegrityError", None)
        ELSE payment_result(Append(payments, payment), 201, "",
                            Some(payment.id))

\* create_payment
create_payment(data) ==
    LET customer_id == data.customer_id
        amount == data.amount
        payment_mode == IF data.payment_mode = None THEN "cash"
                        ELSE Val(data.payment_mode)
        payment == [id |-> Len(payments) + 1,
                    customer_id |-> Val(customer_id),
                    bill_id |-> None,
                    amount |-> Val(amount),
                    payment_mode |-> payment_mode]
    IN  IF ~Truthy(customer_id) \/ ~Truthy(amount)
        THEN payment_result(payments, 400, "", None)
        ELSE IF Val(customer_id) \notin customers
        THEN payment_result(payments, 500, "IntegrityError", None)
        ELSE payment_result(Append(payments, payment), 201, "",
                            Some(payment.id))

---------------------------------------------------------------------------
(* Outcome of the last request *)

Outcome(op, status, exc, req, res) ==
    [op |-> op, status |-> status, exc |-> exc, req |-> req, res |-> res]

NoRequest == Outcome("none", 0, "", None, None)

---------------------------------------------------------------------------
(* Billing and ledger requests *)

\* POST /api/customers
CreateCustomer ==
    \E name_ok \in BOOLEAN, phone_ok \in BOOLEAN :
        LET req == [name |-> name_ok, phone |-> phone_ok]
            id == Cardinality(customers) + 1
        IN  /\ Cardinality(customers) < MaxCustomers
            /\ IF ~name_ok \/ ~phone_ok
               THEN /\ customers' = customers
                    /\ last' = Outcome("create_customer", 400, "", req, None)
               ELSE /\ customers' = customers \cup {id}
                    /\ last' = Outcome("create_customer", 200, "", req, Some(id))
            /\ UNCHANGED <<bills, bill_items, payments>>
            /\ UNCHANGED notif_vars

\* POST /api/bills
CreateBill ==
    \E data \in BillRequests, suffix \in 1..MaxSuffix :
        LET r == create_bill(data, suffix)
        IN  /\ Len(r.bills) <= MaxBills
            /\ bills' = r.bills
            /\ bill_items' = r.bill_items
            /\ payments' = r.payments
            /\ last' = Outcome("create_bill", r.status, r.exc, data,
                               [bill_id |-> r.bill_id,
                                bill_number |-> r.bill_number])
            /\ UNCHANGED customers
            /\ UNCHANGED notif_vars

\* mutant: a recorded payment settles the customer's unpaid bills, fully
\* when it covers the bill's total and partially otherwise
CreatePaymentSettling ==
    \E data \in PaymentRequests :
        LET r == create_payment(data)
            settled(b) ==
                IF r.status = 201
                   /\ b.customer_id = data.customer_id
                   /\ b.payment_status # "paid"
                THEN [b EXCEPT !.payment_status =
                          IF Val(data.amount) >= b.total_amount
                          THEN "paid" ELSE "partial"]
                ELSE b
        IN  /\ Len(r.payments) <= MaxPayments
            /\ payments' = r.payments
            /\ bills' = [i \in DOMAIN bills |-> settled(bills[i])]
            /\ last' = Outcome("create_payment", r.status, r.exc, data,
                               r.payment_id)
            /\ UNCHANGED <<customers, bill_items>>
            /\ UNCHANGED notif_vars

\* POST /api/payments
CreatePayment ==
    \E data \in PaymentRequests :
        LET r == create_payment(data)
        IN  /\ Len(r.payments) <= MaxPayments
            /\ payments' = r.payments
            /\ last' = Outcome("create_payment", r.status, r.exc, data,
                               r.payment_id)
            /\ UNCHANGED <<customers, bills, bill_items>>
            /\ UNCHANGED notif_vars

\* GET /api/customers/<id>/ledger
ApiCustomerLedger ==
    \E customer_id \in CustomerIds :
        /\ last' = IF customer_id \notin customers
                   THEN Outcome("ledger", 404, "", customer_id, None)
                   ELSE Outcome("ledger", 200, "", customer_id,
                                [outstanding_balance |->
                                     outstanding_balance(customer_id),
                                 bills |-> ledger_bills(customer_id),
                                 payments |-> ledger_payments(customer_id)])
        /\ UNCHANGED <<customers, bills, bill_items, payments>>
        /\ UNCHANGED notif_vars

\* GET /api/bills/<bill_number>
\* (0 is a number no bill carries)
ApiGetBill ==
    \E bill_number \in 0..MaxSuffix :
        LET r == api_get_bill(bill_number)
        IN  /\ last' = Outcome("get_bill", r.status, r.exc, bill_number,
                               r.detail)
            /\ UNCHANGED <<customers, bills, bill_items, payments>>
            /\ UNCHANGED notif_vars

---------------------------------------------------------------------------
(* Inventory / alert evaluator *)

ProductIds == {1, 2}
ReorderLevel == 1

\* stock below, at and above the reorder level
StockLevels == {ReorderLevel - 1, ReorderLevel, ReorderLevel + 1}
ExpiryWindow == 7
UrgentDays == 3

\* expiry_date - today in days; None is a product without expiry date
ExpiryInputs == {None, Some(2), Some(9)}

\* the store's notification table and its id sequence
Store(ns, seq) == [notifications |-> ns, notif_seq |-> seq]

unread(ns, type) == {n \in ns : n.type = type /\ ~n.is_read}

unread_for(ns, type, product_id) ==
    {n \in unread(ns, type) : n.product_id = Some(product_id)}

\* create_notification: add the row and commit
create_notification(st, type, priority, product_id) ==
    Store(st.notifications \cup
              {[id |-> st.notif_seq + 1, type |-> type, priority |-> priority,
                is_read |-> FALSE, product_id |-> product_id]},
          st.notif_seq + 1)

\* check_subscription_expiry
check_subscription_expiry(st) ==
    IF unread(st.notifications, "subscription") = {}
    THEN create_notification(st, "subscription", "high", None)
    ELSE st

\* check_backup_status
check_backup_status(st) ==
    IF unread(st.notifications, "backup") = {}
    THEN create_notification(st, "backup", "high", None)
    ELSE st

\* mutant: the check for an existing unread alert of the product is dropped
low_stock_step_always(st, p) ==
    create_notification(st, "inventory", "high", Some(p))

\* the body of check_low_stock's loop for one product
low_stock_step(st, p) ==
    IF unread_for(st.notifications, "inventory", p) = {}
    THEN create_notification(st, "inventory", "high", Some(p))
    ELSE st

RECURSIVE check_low_stock_from_strict(_, _)
\* mutant: a product exactly at its reorder level is not selected
check_low_stock_from_strict(st, p) ==
    IF p \notin ProductIds THEN st
    ELSE check_low_stock_from_strict(
             IF products[p].stock_quantity < products[p].reorder_level
             THEN low_stock_step(st, p) ELSE st,
             p + 1)

RECURSIVE check_low_stock_from(_, _)
\* check_low_stock over the products p, p+1, ... in id order
check_low_stock_from(st, p) ==
    IF p \notin ProductIds THEN st
    ELSE check_low_stock_from(
             IF products[p].stock_quantity <= products[p].reorder_level
             THEN low_stock_step(st, p) ELSE st,
             p + 1)

\* check_low_stock
check_low_stock(st) == check_low_stock_from(st, 1)

\* the body of check_expiring_products' loop for one product
expiry_step(st, p) ==
    LET days_to_expiry == Val(products[p].expiry_days)
    IN  IF unread_for(st.notifications, "expiry", p) = {}
        THEN create_notification(
                 st, "expiry",
                 IF days_to_expiry <= UrgentDays THEN "urgent" ELSE "high",
                 Some(p))
        ELSE st

RECURSIVE check_expiring_from(_, _)
\* check_expiring_products over the products p, p+1, ... in id order
check_expiring_from(st, p) ==
    IF p \notin ProductIds THEN st
    ELSE check_expiring_from(
             IF products[p].expiry_days # None
                /\ Val(products[p].expiry_days) <= ExpiryWindow
             THEN expiry_step(st, p) ELSE st,
             p + 1)

\* check_expiring_products
check_expiring_products(st) == check_expiring_from(st, 1)

\* mutant: the scan marks the inventory alerts of replenished products read
run_checks_resolving(st) ==
    LET r == check_expiring_products(
                 check_low_stock(
                     check_backup_status(check_subscription_expiry(st))))
        stale(n) == /\ n.type = "inventory"
                    /\ \E p \in ProductIds :
                           /\ n.product_id = Some(p)
                           /\ products[p].stock_quantity
                                  > products[p].reorder_level
    IN  Store({IF stale(n) THEN [n EXCEPT !.is_read = TRUE] ELSE n :
               n \in r.notifications},
              r.notif_seq)

\* the four checks get_notifications runs, in its order
run_checks(st) ==
    check_expiring_products(
        check_low_stock(check_backup_status(check_subscription_expiry(st))))

\* mutant: disable_backup keeps the unread backup notifications
disable_backup_keep(st) ==
    create_notification(st, "backup", "urgent", None)

\* mutant: disable_backup deletes the read backup notifications as well
disable_backup_all(st) ==
    create_notification(
        Store({n \in st.notifications : n.type # "backup"}, st.notif_seq),
        "backup", "urgent", None)

\* disable_backup
disable_backup(st) ==
    create_notification(
        Store(st.notifications \ unread(st.notifications, "backup"),
              st.notif_seq),
        "backup", "urgent", None)

\* enable_backup
enable_backup(st) ==
    Store(st.notifications \ unread(st.notifications, "backup"), st.notif_seq)

\* mutant: is_read is toggled instead of set
mark_notification_read_toggle(st, notification_id) ==
    LET found == {n \in st.notifications : n.id = notification_id}
    IN  IF found = {}
        THEN [notifications |-> st.notifications, status |-> 500,
              exc |-> "NotFound", found |-> FALSE, was_read |-> FALSE]
        ELSE [notifications |->
                  {IF n.id = notification_id
                   THEN [n EXCEPT !.is_read = ~n.is_read] ELSE n :
                   n \in st.notifications},
              status |-> 200, exc |-> "", found |-> TRUE,
              was_read |-> \E n \in found : n.is_read]

\* mark_notification_read; get_or_404 raises NotFound inside the try block
\* and `except Exception` turns it into the generic 500 answer
mark_notification_read(st, notification_id) ==
    LET found == {n \in st.notifications : n.id = notification_id}
    IN  IF found = {}
        THEN [notifications |-> st.notifications, status |-> 500,
              exc |-> "NotFound", found |-> FALSE, was_read |-> FALSE]
        ELSE [notifications |->
                  {IF n.id = notification_id
                   THEN [n EXCEPT !.is_read = TRUE] ELSE n :
                   n \in st.notifications},
              status |-> 200, exc |-> "", found |-> TRUE,
              was_read |-> \E n \in found : n.is_read]

---------------------------------------------------------------------------
(* Notification requests *)

\* GET /api/notifications: the checks, then the unread notifications
GetNotifications ==
    LET r == run_checks(Store(notifications, notif_seq))
    IN  /\ r.notif_seq <= MaxNotifSeq
        /\ notifications' = r.notifications
        /\ notif_seq' = r.notif_seq
        /\ last' = Outcome("get_notifications", 200, "", None,
                           [count |-> Cardinality(
                                {n \in r.notifications : ~n.is_read})])
        /\ UNCHANGED products
        /\ UNCHANGED ledger_vars
        /\ UNCHANGED scans

\* POST /api/notifications/<id>/mark-read
MarkNotificationRead ==
    \E notification_id \in 1..MaxNotifSeq :
        LET r == mark_notification_read(Store(notifications, notif_seq),
                                        notification_id)
        IN  /\ notifications' = r.notifications
            /\ last' = Outcome("mark_read", r.status, r.exc, notification_id,
                               [found |-> r.found, was_read |-> r.was_read])
            /\ UNCHANGED <<products, notif_seq>>
            /\ UNCHANGED ledger_vars
            /\ UNCHANGED scans

\* POST /api/backup/disable
DisableBackup ==
    LET r == disable_backup(Store(notifications, notif_seq))
    IN  /\ r.notif_seq <= MaxNotifSeq
        /\ notifications' = r.notifications
        /\ notif_seq' = r.notif_seq
        /\ last' = Outcome("disable_backup", 200, "", None, None)
        /\ UNCHANGED products
        /\ UNCHANGED ledger_vars
        /\ UNCHANGED scans

\* POST /api/backup/enable
EnableBackup ==
    LET r == enable_backup(Store(notifications, notif_seq))
    IN  /\ notifications' = r.notifications
        /\ last' = Outcome("enable_backup", 200, "", None, None)
        /\ UNCHANGED <<products, notif_seq>>
        /\ UNCHANGED ledger_vars
        /\ UNCHANGED scans

\* Product.stock_quantity is written to the store by sales and refills
\* outside the handlers of app.py
UpdateStock ==
    \E p \in ProductIds, q \in StockLevels :
        /\ products[p].stock_quantity # q
        /\ products' = [products EXCEPT ![p].stock_quantity = q]
        /\ last' = Outcome("update_stock", 0, "", None, None)
        /\ UNCHANGED <<notifications, notif_seq>>
        /\ UNCHANGED ledger_vars
        /\ UNCHANGED scans

---------------------------------------------------------------------------
(* Notification scans in concurrent requests *)

\* Requests served at the same time run get_notifications' checks side by
\* side: every check queries the store for an existing unread notification
\* and then, in a second access, inserts and commits its own.  scans[i] is
\* the position of request i: the check it is at (0 when no request is in
\* progress), whether its query or its insert comes next, and the result of
\* its query.

ScanIds == 1..MaxScans

\* the checks of one scan in the order get_notifications runs them
ScanChecks ==
    <<[type |-> "subscription", product_id |-> None],
      [type |-> "backup", product_id |-> None]>>
    \o [p \in 1..Cardinality(ProductIds) |->
            [type |-> "inventory", product_id |-> Some(p)]]
    \o [p \in 1..Cardinality(ProductIds) |->
            [type |-> "expiry", product_id |-> Some(p)]]

IdleScan == [check |-> 0, phase |-> "idle", found |-> FALSE]
NoScans == [i \in ScanIds |-> IdleScan]

\* whether the check's condition selects its product (the singleton checks
\* always run)
check_applies(c) ==
    IF c.type = "inventory"
    THEN products[Val(c.product_id)].stock_quantity
             <= products[Val(c.product_id)].reorder_level
    ELSE IF c.type = "expiry"
    THEN /\ products[Val(c.product_id)].expiry_days # None
         /\ Val(products[Val(c.product_id)].expiry_days) <= ExpiryWindow
    ELSE TRUE

\* the check's query for an existing unread notification
check_existing(c) ==
    IF c.product_id = None
    THEN unread(notifications, c.type) # {}
    ELSE unread_for(notifications, c.type, Val(c.product_id)) # {}

check_priority(c) ==
    IF c.type = "expiry"
       /\ Val(products[Val(c.product_id)].expiry_days) <= UrgentDays
    THEN "urgent" ELSE "high"

\* the position after check k
next_check(k) ==
    IF k < Len(ScanChecks)
    THEN [check |-> k + 1, phase |-> "query", found |-> FALSE]
    ELSE [check |-> k + 1, phase |-> "return", found |-> FALSE]

\* GET /api/notifications arrives
ScanBegin(i) ==
    /\ scans[i].phase = "idle"
    /\ scans' = [scans EXCEPT ![i] = next_check(0)]
    /\ UNCHANGED <<products, notifications, notif_seq, last>>
    /\ UNCHANGED ledger_vars

\* the query of the current check
ScanQuery(i) ==
    /\ scans[i].phase = "query"
    /\ LET k == scans[i].check
           c == ScanChecks[k]
       IN  scans' = [scans EXCEPT ![i] =
                         IF check_applies(c)
                         THEN [check |-> k, phase |-> "insert",
                               found |-> check_existing(c)]
                         ELSE next_check(k)]
    /\ UNCHANGED <<products, notifications, notif_seq, last>>
    /\ UNCHANGED ledger_vars

\* `if not existing: create_notification(...)` of the current check
ScanInsert(i) ==
    /\ scans[i].phase = "insert"
    /\ LET k == scans[i].check
           c == ScanChecks[k]
           r == IF scans[i].found THEN Store(notifications, notif_seq)
                ELSE create_notification(Store(notifications, notif_seq),
                                         c.type, check_priority(c),
                                         c.product_id)
       IN  /\ r.notif_seq <= MaxNotifSeq
           /\ notifications' = r.notifications
           /\ notif_seq' = r.notif_seq
           /\ scans' = [scans EXCEPT ![i] = next_check(k)]
    /\ UNCHANGED <<products, last>>
    /\ UNCHANGED ledger_vars

\* the answer of get_notifications
ScanReturn(i) ==
    /\ scans[i].phase = "return"
    /\ scans' = [scans EXCEPT ![i] = IdleScan]
    /\ last' = Outcome("get_notifications", 200, "", None,
                       [count |-> Cardinality(
                            {n \in notifications : ~n.is_read})])
    /\ UNCHANGED <<products, notifications, notif_seq>>
    /\ UNCHANGED ledger_vars

---------------------------------------------------------------------------
(* Dashboard statistics *)

\* Money computed by the dashboard is held in hundredths, so that
\* unit_price * 0.65 and (cost_price / 1000) * weight are exact for whole
\* prices and weights in tens of grams.  A Bill's created_day is the number
\* of days between its creation date and today.

FallbackCostPercent == 65

\* Product.query.filter_by(name=...).first(): the matching row of lowest id
first_product(name) ==
    LET ids == {p \in ProductIds : products[p].name = name}
    IN  IF ids = {} THEN None
        ELSE Some(products[CHOOSE p \in ids : \A q \in ids : p <= q])

\* the cost of one item of a product that has a cost price
item_cost(product, item) ==
    IF product.is_weight_based /\ Truthy(item.weight)
    THEN IF Truthy(product.price_per_kg)
         THEN (product.cost_price * Val(item.weight)) \div 10
         ELSE product.cost_price * item.quantity * 100
    ELSE product.cost_price * item.quantity * 100

\* what one item adds to the cost and to the revenue of its day
item_totals(item) ==
    LET product == first_product(item.item_name)
    IN  IF product # None /\ Val(product).cost_price > 0
        THEN [cost |-> item_cost(Val(product), item),
              revenue |-> item.total_price * 100]
        ELSE IF product # None
        THEN [cost |-> item.unit_price * FallbackCostPercent * item.quantity,
              revenue |-> item.total_price * 100]
        ELSE [cost |-> 0, revenue |-> 0]

\* the paid bills created `day` days ago
paid_bills(day) ==
    {b \in Range(bills) : b.created_day = day /\ b.payment_status = "paid"}

\* the two loops over the day's bills and their items
day_totals(day) ==
    LET idx == {i \in DOMAIN bill_items :
                    \E b \in paid_bills(day) : bill_items[i].bill_id = b.id}
    IN  [actual_cost |->
             SumSet(idx, [i \in idx |-> item_totals(bill_items[i]).cost]),
         total_revenue |->
             SumSet(idx, [i \in idx |-> item_totals(bill_items[i]).revenue])]

day_profit(day) == day_totals(day).total_revenue - day_totals(day).actual_cost

\* mutant: the percentage change is taken for a negative prior day as well
profit_growth_signed(today_profit, yesterday_profit) ==
    IF yesterday_profit # 0
    THEN [num |-> (today_profit - yesterday_profit) * 100,
          den |-> yesterday_profit]
    ELSE IF yesterday_profit = 0 /\ today_profit > 0
    THEN [num |-> 100, den |-> 1]
    ELSE [num |-> 0, den |-> 1]

\* profit growth in percent, as the fraction num / den
profit_growth(today_profit, yesterday_profit) ==
    IF yesterday_profit > 0
    THEN [num |-> (today_profit - yesterday_profit) * 100,
          den |-> yesterday_profit]
    ELSE IF yesterday_profit = 0 /\ today_profit > 0
    THEN [num |-> 100, den |-> 1]
    ELSE IF yesterday_profit = 0 /\ today_profit = 0
    THEN [num |-> 0, den |-> 1]
    ELSE [num |-> 0, den |-> 1]

\* get_dashboard_stats (the answer rounds money to two decimals, which the
\* hundredths are, and the growth to one)
get_dashboard_stats ==
    LET today == day_totals(0)
        balances == [c \in customers |-> outstanding_balance(c)]
    IN  [today_profit |-> day_profit(0),
         yesterday_profit |-> day_profit(1),
         profit_growth |-> profit_growth(day_profit(0), day_profit(1)),
         total_sales |-> SumSet(paid_bills(0),
                                [b \in paid_bills(0) |-> b.total_amount]),
         actual_cost |-> today.actual_cost,
         total_revenue |-> today.total_revenue,
         transaction_count |-> Cardinality(paid_bills(0)),
         outstanding_amount |-> SumSet(customers, balances),
         customers_with_credit |->
             Cardinality({c \in customers : balances[c] > 0}),
         total_products |-> Cardinality(ProductIds),
         expired_products |->
             Cardinality({p \in ProductIds :
                              /\ products[p].expiry_days # None
                              /\ Val(products[p].expiry_days) < 0}),
         low_stock_products |->
             Cardinality({p \in ProductIds :
                              products[p].stock_quantity
                                  <= products[p].reorder_level})]

\* GET /api/dashboard/stats
GetDashboardStats ==
    /\ last' = Outcome("dashboard_stats", 200, "", None, get_dashboard_stats)
    /\ UNCHANGED ledger_vars
    /\ UNCHANGED notif_vars

---------------------------------------------------------------------------
(* Specifications *)

\* Product rows stocked above the reorder level, as the sample products are;
\* the first product has any expiry date, the others none
ProductTables ==
    {[p \in ProductIds |-> [stock_quantity |-> ReorderLevel + 1,
                            reorder_level |-> ReorderLevel,
                            expiry_days |-> IF p = 1 THEN e ELSE None]] :
     e \in ExpiryInputs}

SampleProducts ==
    [p \in ProductIds |-> [stock_quantity |-> ReorderLevel + 1,
                           reorder_level |-> ReorderLevel,
                           expiry_days |-> Some(9)]]

\* a store with tables created and no rows but the products
Init ==
    /\ customers = {}
    /\ bills = <<>>
    /\ bill_items = <<>>
    /\ payments = <<>>
    /\ products = SampleProducts
    /\ notifications = {}
    /\ notif_seq = 0
    /\ last = NoRequest
    /\ scans = NoScans

\* the same store with any expiry dates on the products
InitNotif ==
    /\ customers = {}
    /\ bills = <<>>
    /\ bill_items = <<>>
    /\ payments = <<>>
    /\ products \in ProductTables
    /\ notifications = {}
    /\ notif_seq = 0
    /\ last = NoRequest
    /\ scans = NoScans

\* product tables with any stock level on every product and no expiry dates
LowStockTables ==
    {[p \in ProductIds |-> [stock_quantity |-> q[p],
                            reorder_level |-> ReorderLevel,
                            expiry_days |-> None]] :
     q \in [ProductIds -> StockLevels]}

\* a store whose stock levels are not written while notifications are polled
InitLowStock ==
    /\ customers = {}
    /\ bills = <<>>
    /\ bill_items = <<>>
    /\ payments = <<>>
    /\ products \in LowStockTables
    /\ notifications = {}
    /\ notif_seq = 0
    /\ last = NoRequest
    /\ scans = NoScans

\* the Bill and Payment rows a store may hold when outstanding_balance is read
StoredBill(id, c, status) ==
    [id |-> id, bill_number |-> id, customer_id |-> c,
     total_amount |-> 10,
     payment_mode |-> IF status = "paid" THEN "cash" ELSE "credit",
     payment_status |-> status]

StoredPayment(id, c, amount) ==
    [id |-> id, customer_id |-> c, bill_id |-> None, amount |-> amount,
     payment_mode |-> "cash"]

BillTables ==
    UNION {[1..n -> ({None} \cup {Some(c) : c \in CustomerIds})
                    \X {"paid", "pending", "partial"}] : n \in 0..MaxBills}

PaymentTables ==
    UNION {[1..n -> CustomerIds \X {-4, 4}] : n \in 0..MaxPayments}

\* a store that holds customers, bills and payments
InitLedger ==
    /\ customers \in {1..n : n \in 1..MaxCustomers}
    /\ \E t \in BillTables :
           bills = [i \in DOMAIN t |-> StoredBill(i, t[i][1], t[i][2])]
    /\ bill_items = <<>>
    /\ \E t \in PaymentTables :
           payments = [i \in DOMAIN t |-> StoredPayment(i, t[i][1], t[i][2])]
    /\ products = SampleProducts
    /\ notifications = {}
    /\ notif_seq = 0
    /\ last = NoRequest
    /\ scans = NoScans

\* a catalog with rice (any cost price, none set being 0) and dal sold by
\* weight (priced per kg or not)
CatalogTables ==
    {[p \in ProductIds |->
          [name |-> IF p = 1 THEN "rice" ELSE "dal",
           cost_price |-> IF p = 1 THEN c ELSE 10,
           is_weight_based |-> p # 1,
           price_per_kg |-> IF p = 1 THEN None ELSE k,
           stock_quantity |-> ReorderLevel + 1,
           reorder_level |-> ReorderLevel,
           expiry_days |-> None]] :
     c \in {0, 1, 3}, k \in {None, Some(40)}}

\* the items sold: rice, dal with and without a weight in grams, and soap,
\* which the catalog does not list
SoldItems ==
    {[item_name |-> "rice", weight |-> None],
     [item_name |-> "dal", weight |-> Some(50)],
     [item_name |-> "dal", weight |-> None],
     [item_name |-> "soap", weight |-> None]}

\* anonymous bills of today, yesterday and the day before
DatedBillTables ==
    {[i \in 1..MaxBills |->
          [id |-> i, bill_number |-> i, customer_id |-> None,
           total_amount |-> 2, payment_mode |-> "cash",
           payment_status |-> t[i][1], created_day |-> t[i][2]]] :
     t \in [1..MaxBills -> {"paid", "pending"} \X {0, 1, 2}]}

\* MaxBills + 1 items, one per bill and a second one on the first bill
DatedItemTables ==
    {[j \in 1..(MaxBills + 1) |->
          [id |-> j, bill_id |-> ((j - 1) % MaxBills) + 1,
           item_name |-> s[j].item_name, quantity |-> 1, unit_price |-> 2,
           total_price |-> 2, weight |-> s[j].weight]] :
     s \in [1..(MaxBills + 1) -> SoldItems]}

\* a store with a catalog and the sales of the last days
InitDashboard ==
    /\ customers = {}
    /\ bills \in DatedBillTables
    /\ bill_items \in DatedItemTables
    /\ payments = <<>>
    /\ products \in CatalogTables
    /\ notifications = {}
    /\ notif_seq = 0
    /\ last = NoRequest
    /\ scans = NoScans

\* the Bill tables of MaxBills bills, bill i of customer ((i-1) % n) + 1,
\* each with one line item
OwnedBillTables ==
    {[i \in 1..MaxBills |->
          StoredBill(i, Some(((i - 1) % MaxCustomers) + 1), s[i])] :
     s \in [1..MaxBills -> {"paid", "pending", "partial"}]}

StoredItem(i) ==
    [id |-> i, bill_id |-> i, item_name |-> "rice", quantity |-> 1,
     unit_price |-> 10, total_price |-> 10]

\* a store with customers and their bills, before any payment is recorded
InitPayments ==
    /\ customers = CustomerIds
    /\ bills \in OwnedBillTables
    /\ bill_items = [i \in 1..MaxBills |-> StoredItem(i)]
    /\ payments = <<>>
    /\ products = SampleProducts
    /\ notifications = {}
    /\ notif_seq = 0
    /\ last = NoRequest
    /\ scans = NoScans

NextBilling ==
    \/ CreateCustomer
    \/ CreateBill
    \/ CreatePayment
    \/ ApiCustomerLedger
    \/ ApiGetBill

NextLedger == ApiCustomerLedger

NextNotif ==
    \/ GetNotifications
    \/ MarkNotificationRead
    \/ DisableBackup
    \/ EnableBackup
    \/ UpdateStock

\* payments recorded, ledgers and bills read
NextPayments ==
    \/ CreatePayment
    \/ ApiCustomerLedger
    \/ ApiGetBill

NextDashboard == GetDashboardStats

\* get_notifications requests served side by side
NextScans ==
    \E i \in ScanIds :
        \/ ScanBegin(i)
        \/ ScanQuery(i)
        \/ ScanInsert(i)
        \/ ScanReturn(i)

\* scans and mark_read calls only
NextLowStock ==
    \/ GetNotifications
    \/ MarkNotificationRead

Next == NextBilling \/ NextNotif \/ NextDashboard \/ NextScans

Spec == Init /\ [][Next]_vars

SpecBilling == Init /\ [][NextBilling]_vars

SpecLedger == InitLedger /\ [][NextLedger]_vars

SpecNotif == InitNotif /\ [][NextNotif]_vars

SpecLowStock == InitLowStock /\ [][NextLowStock]_vars

SpecPayments == InitPayments /\ [][NextPayments]_vars

SpecDashboard == InitDashboard /\ [][NextDashboard]_vars

SpecScans == InitLowStock /\ [][NextScans]_vars

---------------------------------------------------------------------------
(* Claims *)

RECURSIVE unpaid_upto(_, _)
\* total_amount of the customer's bills 1..n that are not paid
unpaid_upto(c, n) ==
    IF n = 0 THEN 0
    ELSE unpaid_upto(c, n - 1)
         + (IF bills[n].customer_id = Some(c)
               /\ bills[n].payment_status # "paid"
            THEN bills[n].total_amount ELSE 0)

RECURSIVE paid_upto(_, _)
\* amount of the customer's payments 1..n
paid_upto(c, n) ==
    IF n = 0 THEN 0
    ELSE paid_upto(c, n - 1)
         + (IF payments[n].customer_id = c THEN payments[n].amount ELSE 0)

\* C1: for every existing customer, outstanding_balance is the sum of the
\* totals of the customer's bills that are not paid minus the sum of the
\* customer's payments, on the rows the store holds when it is read; a
\* customer without bills and payments has balance 0
C1_BalanceIsUnpaidMinusPayments ==
    /\ \A c \in customers :
           /\ outstanding_balance(c)
                  = unpaid_upto(c, Len(bills)) - paid_upto(c, Len(payments))
           /\ (ledger_bills(c) = <<>> /\ ledger_payments(c) = <<>>)
                  => outstanding_balance(c) = 0
    /\ (last.op = "ledger" /\ last.status = 200)
           => last.res.outstanding_balance
                  = unpaid_upto(last.req, Len(bills))
                    - paid_upto(last.req, Len(payments))

\* C1 witness: the ledger of a customer with one pending bill of 10, a paid
\* bill and one payment of 4 was read and shows 6
C1_Witness ==
    /\ last.op = "ledger" /\ last.status = 200
    /\ last.res.outstanding_balance = 6
    /\ Len(last.res.bills) = 2
    /\ \E i \in 1..2 : last.res.bills[i].payment_status = "pending"
    /\ \E i \in 1..2 : last.res.bills[i].payment_status = "paid"
    /\ Len(last.res.payments) = 1

\* a create_bill request that names an existing customer
bill_request_for_customer ==
    /\ last.op = "create_bill"
    /\ last.req \in WellFormedBillRequests
    /\ last.req.customer_id # None
    /\ Val(last.req.customer_id) \in customers

\* C2: create_bill with payment_mode cash or online and an existing customer
\* X yields a paid bill and exactly one Payment of the bill's total that
\* references X and the bill and shows in X's ledger
C2_PaidBillRecordsOnePayment ==
    (bill_request_for_customer
     /\ last.req.payment_mode \in {Some("cash"), Some("online")})
    => /\ last.status = 200
       /\ last.res.bill_id # None
       /\ \E b \in Range(bills) :
              /\ b.id = Val(last.res.bill_id)
              /\ b.payment_status = "paid"
              /\ LET ps == {p \in Range(payments) : p.bill_id = Some(b.id)}
                 IN  /\ Cardinality(ps) = 1
                     /\ \A p \in ps :
                            /\ p.amount = b.total_amount
                            /\ p.customer_id = Val(last.req.customer_id)
                            /\ p \in Range(ledger_payments(p.customer_id))

\* C3: create_bill with payment_mode credit yields a pending bill and no
\* Payment, with or without customer id
C3_CreditBillIsPendingWithoutPayment ==
    (/\ last.op = "create_bill"
     /\ last.req \in WellFormedBillRequests
     /\ last.req.customer_id # None => Val(last.req.customer_id) \in customers
     /\ last.req.payment_mode = Some("credit"))
    => /\ last.status = 200
       /\ last.res.bill_id # None
       /\ \E b \in Range(bills) :
              /\ b.id = Val(last.res.bill_id)
              /\ b.payment_status = "pending"
              /\ ~\E p \in Range(payments) : p.bill_id = Some(b.id)

\* C4: a well-formed create_bill request succeeds, adds one Bill and one
\* BillItem per line item, each referencing the bill, and returns the bill's
\* id and number
C4_WellFormedRequestPersistsBillAndItems ==
    (/\ last.op = "create_bill"
     /\ last.req \in WellFormedBillRequests
     /\ last.req.customer_id # None => Val(last.req.customer_id) \in customers)
    => /\ last.status = 200
       /\ last.res.bill_id = Some(Len(bills))
       /\ last.res.bill_number # None
       /\ Len(bills) > 0
       /\ bills[Len(bills)].bill_number = Val(last.res.bill_number)
       /\ Cardinality({i \in DOMAIN bill_items :
                           bill_items[i].bill_id = Len(bills)})
              = Len(last.req.items)

\* C6: each product has at most one unread inventory notification, and the
\* low-stock check run again right after a scan creates nothing
C6_LowStockScanIdempotent ==
    /\ \A p \in ProductIds :
           Cardinality(unread_for(notifications, "inventory", p)) <= 1
    /\ last.op = "get_notifications"
           => check_low_stock(Store(notifications, notif_seq))
                  = Store(notifications, notif_seq)

\* C6 witness: a scan has just run on a product low on stock that has a read
\* alert from an earlier scan next to its one unread alert
C6_Witness ==
    /\ last.op = "get_notifications"
    /\ \E p \in ProductIds :
           /\ products[p].stock_quantity <= products[p].reorder_level
           /\ Cardinality(unread_for(notifications, "inventory", p)) = 1
           /\ \E n \in notifications :
                  n.type = "inventory" /\ n.is_read /\ n.product_id = Some(p)

\* C7: there is at most one unread subscription notification and at most
\* one unread backup notification
C7_SingletonSubscriptionAndBackup ==
    /\ Cardinality(unread(notifications, "subscription")) <= 1
    /\ Cardinality(unread(notifications, "backup")) <= 1

\* C7 witness: disable_backup has replaced the scan's unread backup
\* notification by its urgent one, next to an unread subscription
\* notification and a backup notification read earlier
C7_Witness ==
    /\ last.op = "disable_backup"
    /\ \E n \in unread(notifications, "backup") : n.priority = "urgent"
    /\ unread(notifications, "subscription") # {}
    /\ \E n \in notifications : n.type = "backup" /\ n.is_read

\* C8: mark_read on a notification that is already read succeeds, leaves it
\* read and leaves every notification as it was
C8_MarkReadIdempotent ==
    /\ \A n \in notifications :
           n.is_read =>
               LET r == mark_notification_read(
                            Store(notifications, notif_seq), n.id)
               IN  /\ r.status = 200
                   /\ r.notifications = notifications
    /\ (last.op = "mark_read" /\ last.res.found /\ last.res.was_read)
           => /\ last.status = 200
              /\ \E n \in notifications : n.id = last.req /\ n.is_read

\* C8 witness: mark_read was called on an already read notification while
\* another notification is unread
C8_Witness ==
    /\ last.op = "mark_read" /\ last.res.found /\ last.res.was_read
    /\ last.status = 200
    /\ \E n \in notifications : n.id # last.req /\ ~n.is_read

\* C9: mark_read with an id that does not exist fails with 404, not with
\* the generic failure, and changes no notification
C9_MarkReadMissingIsNotFound ==
    (last.op = "mark_read" /\ ~last.res.found) => last.status = 404

\* C10: record_payment rejects a request without customer id or amount or
\* with amount <= 0, so every stand-alone payment has amount > 0
C10_RecordPaymentRejectsNonPositive ==
    /\ (/\ last.op = "create_payment"
        /\ \/ last.req.customer_id = None
           \/ last.req.amount = None
           \/ Val(last.req.amount) <= 0)
           => last.status \in {400, 500} /\ last.res = None
    /\ \A p \in Range(payments) : p.bill_id = None => p.amount > 0

\* C11: create_bill fails with a validation error (a 4xx answer) and persists
\* nothing when subtotal, total_amount or payment_mode is missing or the
\* payment mode is none of cash, online, split, credit
C11_InvalidBillRequestIsValidationError ==
    (/\ last.op = "create_bill"
     /\ \/ last.req.subtotal = None
        \/ last.req.total_amount = None
        \/ last.req.payment_mode = None
        \/ Val(last.req.payment_mode) \notin BillModes)
    => /\ last.status \in 400..499
       /\ last.res.bill_id = None

\* C12: get_bill returns the bill's detail with its line items whenever a
\* bill with the number exists, and fails with 404 exactly when none exists
C12_GetBillReturnsDetailOrNotFound ==
    last.op = "get_bill"
    => LET known == {b \in Range(bills) : b.bill_number = last.req}
       IN  /\ known # {}
                  => /\ last.status = 200
                     /\ last.res # None
                     /\ \E b \in known :
                            /\ Val(last.res).total_amount = b.total_amount
                            /\ Val(last.res).payment_mode = b.payment_mode
                            /\ Val(last.res).payment_status = b.payment_status
                            /\ Val(last.res).items
                                   = SelectSeq(bill_items,
                                               LAMBDA i : i.bill_id = b.id)
           /\ last.status = 404 <=> known = {}

\* C14: across scans and mark_read calls during which a product stays at or
\* below its reorder level, the number of inventory notifications ever
\* created for it, read or unread, is exactly one once a scan has run
\* (SpecLowStock writes no stock level, creates notifications only in scans
\* and deletes none)
C14_OneInventoryNotificationWhileLow ==
    \A p \in ProductIds :
        (/\ products[p].stock_quantity <= products[p].reorder_level
         /\ notif_seq > 0)
        => Cardinality({n \in notifications :
                            n.type = "inventory" /\ n.product_id = Some(p)})
               = 1

\* C15: after a scan every product with stock_quantity <= reorder_level has
\* exactly one unread inventory notification; an inventory notification a
\* scan creates has priority high and references a product at or below its
\* reorder level, so none is created for a product above it
C15_ScanAlertsEveryLowProductOnce ==
    /\ last.op = "get_notifications"
           => \A p \in ProductIds :
                  products[p].stock_quantity <= products[p].reorder_level
                  => Cardinality(unread_for(notifications, "inventory", p))
                         = 1
    /\ LET st == Store(notifications, notif_seq)
           created == run_checks(st).notifications \ st.notifications
       IN  \A n \in created :
               n.type = "inventory"
               => /\ n.priority = "high"
                  /\ ~n.is_read
                  /\ \E p \in ProductIds :
                         /\ n.product_id = Some(p)
                         /\ products[p].stock_quantity
                                <= products[p].reorder_level

\* C15 witness: a scan has just run with one product exactly at its reorder
\* level, which has its one unread alert of priority high, and the other
\* product above its level, which has no inventory notification at all
C15_Witness ==
    /\ last.op = "get_notifications"
    /\ \E p, q \in ProductIds :
           /\ products[p].stock_quantity = products[p].reorder_level
           /\ \E n \in unread_for(notifications, "inventory", p) :
                  n.priority = "high"
           /\ products[q].stock_quantity > products[q].reorder_level
           /\ ~\E n \in notifications :
                  n.type = "inventory" /\ n.product_id = Some(q)

\* C16: after disable_backup the unread backup notifications are exactly one
\* new notification of priority urgent, the backup notifications unread
\* before are gone, and read notifications and notifications of other types
\* are unchanged; after enable_backup there is no unread backup notification
C16_BackupToggleReplacesUnreadBackup ==
    LET st == Store(notifications, notif_seq)
        d == disable_backup(st).notifications
        e == enable_backup(st).notifications
        others(ns) == {n \in ns : n.is_read \/ n.type # "backup"}
    IN  /\ \E n \in d :
               /\ unread(d, "backup") = {n}
               /\ n.priority = "urgent"
               /\ n \notin notifications
        /\ unread(notifications, "backup") \cap d = {}
        /\ others(d) = others(notifications)
        /\ unread(e, "backup") = {}
        /\ last.op = "disable_backup"
               => /\ Cardinality(unread(notifications, "backup")) = 1
                  /\ \A n \in unread(notifications, "backup") :
                         n.priority = "urgent" /\ n.id = notif_seq
        /\ last.op = "enable_backup" => unread(notifications, "backup") = {}

\* C16 witness: disable_backup has just put its urgent notification in the
\* place of the scan's unread backup notification, while a backup
\* notification read earlier and an unread inventory notification are still
\* there
C16_Witness ==
    /\ last.op = "disable_backup"
    /\ \E n \in notifications :
           n.type = "backup" /\ ~n.is_read /\ n.priority = "urgent"
    /\ \E n \in notifications :
           n.type = "backup" /\ n.is_read /\ n.priority = "high"
    /\ \E n \in notifications : n.type = "inventory" /\ ~n.is_read

\* C17: the scan never sets is_read on, deletes or modifies an existing
\* notification: every notification of the table is in the table the scan
\* leaves, as it was, so the unread inventory notification of a product whose
\* stock rose above its reorder level stays unread through later scans
C17_ScanKeepsExistingNotifications ==
    /\ notifications
           \subseteq run_checks(Store(notifications, notif_seq)).notifications
    /\ \A n \in notifications : n.id \in 1..notif_seq
    /\ \A n, m \in notifications : n.id = m.id => n = m

\* C17 witness: a scan has just run while a product above its reorder level
\* still has the unread inventory notification of an earlier scan
C17_Witness ==
    /\ last.op = "get_notifications"
    /\ \E p \in ProductIds :
           /\ products[p].stock_quantity > products[p].reorder_level
           /\ unread_for(notifications, "inventory", p) # {}

\* C18: a create_payment request answered with 201 adds one Payment without
\* bill reference, lowers its customer's outstanding balance by exactly the
\* amount, and leaves the outstanding balance of every other customer and
\* all Bill and BillItem rows unchanged
C18_PaymentLowersOnlyItsCustomersBalance ==
    [][\A c \in CustomerIds, a \in PaymentAmounts :
           (/\ last'.op = "create_payment"
            /\ last'.status = 201
            /\ last'.req.customer_id = Some(c)
            /\ last'.req.amount = Some(a))
           => /\ Len(payments') = Len(payments) + 1
              /\ SubSeq(payments', 1, Len(payments)) = payments
              /\ payments'[Len(payments')].bill_id = None
              /\ outstanding_balance(c)' = outstanding_balance(c) - a
              /\ \A d \in CustomerIds \ {c} :
                     outstanding_balance(d)' = outstanding_balance(d)
              /\ bills' = bills
              /\ bill_items' = bill_items]_vars

\* C18 witness: a payment of 4 was just recorded for a customer who owes a
\* bill of 10, leaving 6, while another customer owes a bill of 10
C18_Witness ==
    /\ last.op = "create_payment"
    /\ last.status = 201
    /\ Val(last.req.amount) = 4
    /\ \E c, d \in CustomerIds :
           /\ c # d
           /\ last.req.customer_id = Some(c)
           /\ payments[Len(payments)].bill_id = None
           /\ outstanding_balance(c) = 6
           /\ outstanding_balance(d) = 10

\* C19: every persisted Payment has amount > 0 and a mode among cash, online,
\* upi and card
C19_PaymentsArePositiveWithKnownMode ==
    \A p \in Range(payments) :
        /\ p.amount > 0
        /\ p.payment_mode \in {"cash", "online", "upi", "card"}

\* C21: the dashboard's total_revenue is the sum of total_price over every
\* item of every paid bill created today, whether or not the catalog has a
\* product of the item's name, and today's profit is total_revenue minus
\* actual_cost (money in hundredths)
C21_RevenueSumsEveryItemOfPaidBills ==
    last.op = "dashboard_stats"
    => LET idx == {i \in DOMAIN bill_items :
                       \E b \in Range(bills) :
                           /\ b.id = bill_items[i].bill_id
                           /\ b.payment_status = "paid"
                           /\ b.created_day = 0}
       IN  /\ last.res.total_revenue
                  = 100 * SumSet(idx,
                                 [i \in idx |-> bill_items[i].total_price])
           /\ last.res.today_profit
                  = last.res.total_revenue - last.res.actual_cost

\* C22 as stated: the growth is ((today - prior) / prior) * 100 for every
\* prior-day profit other than zero, positive or negative, 0 when both
\* profits are zero and 100 when the prior is zero and today's is positive
C22_GrowthIsPercentageChangeForNonZeroPrior ==
    last.op = "dashboard_stats"
    => LET t == last.res.today_profit
           y == last.res.yesterday_profit
           g == last.res.profit_growth
       IN  /\ y # 0 => g.num * y = (t - y) * 100 * g.den
           /\ (y = 0 /\ t = 0) => g.num = 0
           /\ (y = 0 /\ t > 0) => g.num = 100 * g.den

\* C22 amended: the growth is ((today - prior) / prior) * 100 for every
\* positive prior-day profit, 100 when the prior is zero and today's is
\* positive, 0 when both are zero, and 0 as well whenever the prior-day
\* profit is negative
C22_GrowthIsPercentageChangeForPositivePrior ==
    last.op = "dashboard_stats"
    => LET t == last.res.today_profit
           y == last.res.yesterday_profit
           g == last.res.profit_growth
       IN  /\ g.den # 0
           /\ y > 0 => g.num * y = (t - y) * 100 * g.den
           /\ (y = 0 /\ t = 0) => g.num = 0
           /\ (y = 0 /\ t > 0) => g.num = 100 * g.den
           /\ y < 0 => g.num = 0

\* C22 witness: yesterday closed with a loss and today with a profit, and the
\* dashboard reports a growth of 0
C22_Witness ==
    /\ last.op = "dashboard_stats"
    /\ last.res.yesterday_profit < 0
    /\ last.res.today_profit > 0
    /\ last.res.profit_growth.num = 0

\* C24: when two scans interleave, each check's query and its insert being
\* separate accesses to the store, there is still at most one unread
\* inventory notification per product and at most one unread subscription
\* and one unread backup notification
C24_InterleavedScansKeepAlertsSingle ==
    /\ \A p \in ProductIds :
           Cardinality(unread_for(notifications, "inventory", p)) <= 1
    /\ Cardinality(unread(notifications, "subscription")) <= 1
    /\ Cardinality(unread(notifications, "backup")) <= 1

====
